---- MODULE Spec2Model ----
(***************************************************************************)
(* The in-memory library catalog: the four tables of data/storage.ts, the  *)
(* sample data of data/sampleData.ts and the controllers that validate a   *)
(* request body and call into the store.                                   *)
(*                                                                         *)
(* A request is [name, id, body]: the controller, req.params.id and        *)
(* req.body.  The answer is [status, message, index]: the HTTP status, the *)
(* message of an error answer, and the position in the kind's table of the *)
(* record the controller sends back (the controllers answer with the       *)
(* stored object itself), 0 when the answer carries no record.  requests   *)
(* counts the requests served so far.                                      *)
(***************************************************************************)
EXTENDS Integers, Sequences, FiniteSets, TLC

VARIABLES books, authors, genres, bookCopies, op, result, requests

vars == <<books, authors, genres, bookCopies, op, result, requests>>

tables == <<books, authors, genres, bookCopies>>

(***************************************************************************)
(* Bounds of the model.                                                    *)
(***************************************************************************)
\* The server is followed for this many requests.
MaxRequests == 4

(***************************************************************************)
(* JavaScript values.                                                      *)
(***************************************************************************)
\* A property the JSON body does not carry reads as undefined.
Undefined == "<undefined>"

\* !v of a string-valued body property: undefined and "" are falsy.
Falsy(v) == v = Undefined \/ v = ""

\* An array-valued body property: an array, a (truthy) non-array, or absent.
JsArray(items) == [type |-> "array", items |-> items]

NotAnArray == [type |-> "string", items |-> <<>>]

NoArray == [type |-> "undefined", items |-> <<>>]

\* !v of such a property: an array, even an empty one, is truthy.
FalsyArr(v) == v.type = "undefined"

\* Array.isArray(v)
IsArray(v) == v.type = "array"

\* Array.prototype.join(', ') on a sequence of strings.
RECURSIVE Join(_)
Join(s) ==
  IF s = <<>> THEN ""
  ELSE IF Len(s) = 1 THEN s[1]
       ELSE s[1] \o ", " \o Join(Tail(s))

\* Array.prototype.findIndex(row => row.id === id), 1-based; 0 stands for -1.
findIndex(table, id) ==
  IF \E i \in 1..Len(table) : table[i].id = id
  THEN CHOOSE i \in 1..Len(table) :
         /\ table[i].id = id
         /\ \A j \in 1..(i - 1) : table[j].id # id
  ELSE 0

\* A merge that skips the properties of partial whose value is undefined.
Spread_DefinedOnly(row, partial) ==
  [f \in (DOMAIN row) \cup (DOMAIN partial) |->
     IF f \in DOMAIN partial /\ (f \in {"authorIds", "genreIds"} \/ partial[f] # Undefined)
     THEN partial[f]
     ELSE row[f]]

\* The object spread { ...row, ...partial }: every own property of partial,
\* also one whose value is undefined, overrides the row's.
Spread(row, partial) ==
  [f \in (DOMAIN row) \cup (DOMAIN partial) |->
     IF f \in DOMAIN partial THEN partial[f] ELSE row[f]]

\* Array.prototype.splice(index, 1)
splice(table, index) ==
  [i \in 1..(Len(table) - 1) |-> IF i < index THEN table[i] ELSE table[i + 1]]

(***************************************************************************)
(* Records of the four kinds (models).                                     *)
(***************************************************************************)
Author(id, firstName, lastName, birthDate, deathDate) ==
  [id |-> id, firstName |-> firstName, lastName |-> lastName,
   birthDate |-> birthDate, deathDate |-> deathDate]

Genre(id, name) == [id |-> id, name |-> name]

Book(id, title, authorIds, genreIds, isbn, summary) ==
  [id |-> id, title |-> title, authorIds |-> authorIds, genreIds |-> genreIds,
   isbn |-> isbn, summary |-> summary]

BookCopy(id, bookId, imprint, status, dueBackDate) ==
  [id |-> id, bookId |-> bookId, imprint |-> imprint, status |-> status,
   dueBackDate |-> dueBackDate]

(***************************************************************************)
(* data/sampleData.ts                                                      *)
(***************************************************************************)
initializeData ==
  [authors |-> << Author("auth1", "Isaac", "Asimov", "1920-01-02", "1992-04-06"),
                  Author("auth2", "Ursula", "K. Le Guin", "1929-10-21", "2018-01-22") >>,
   genres |-> << Genre("gen1", "Science Fiction"), Genre("gen2", "Fantasy") >>,
   books |-> << Book("book1", "Foundation", JsArray(<<"auth1">>), JsArray(<<"gen1">>),
                     "978-0-553-29335-4",
                     "The first book in the Foundation series by Isaac Asimov.") >>,
   bookCopies |-> << BookCopy("copy1", "book1", "First Edition 1951", "available",
                              Undefined) >>]

(***************************************************************************)
(* data/storage.ts                                                         *)
(***************************************************************************)
\* Math.random().toString(36).substr(2, 9): up to nine base-36 digits of a
\* random fraction, checked against no table; Math.random() = 0 prints as "0"
\* and leaves the empty string.
generateId == {"", "r1"}

\* The find functions return the first row with the id, or undefined (0).
findBookById(id) == findIndex(books, id)

findAuthorById(id) == findIndex(authors, id)

findGenreById(id) == findIndex(genres, id)

findBookCopyById(id) == findIndex(bookCopies, id)

addBook(book) == Append(books, book)

addAuthor(author) == Append(authors, author)

addGenre(genre) == Append(genres, genre)

addBookCopy(bookCopy) == Append(bookCopies, bookCopy)

\* The update functions answer null (ret = 0) when no row has the id, else
\* the row at the first match, replaced by its spread with the partial.
updateBook(id, updatedBook) ==
  LET index == findIndex(books, id) IN
  IF index = 0 THEN [ret |-> 0, books |-> books]
  ELSE [ret |-> index,
        books |-> [books EXCEPT ![index] = Spread(books[index], updatedBook)]]

updateAuthor(id, updatedAuthor) ==
  LET index == findIndex(authors, id) IN
  IF index = 0 THEN [ret |-> 0, authors |-> authors]
  ELSE [ret |-> index,
        authors |-> [authors EXCEPT ![index] = Spread(authors[index], updatedAuthor)]]

\* An update that rebuilds the row from the partial alone.
updateGenre_Rebuilds(id, updatedGenre) ==
  LET index == findIndex(genres, id) IN
  IF index = 0 THEN [ret |-> 0, genres |-> genres]
  ELSE [ret |-> index,
        genres |-> [genres EXCEPT ![index] =
                      Spread([id |-> Undefined], updatedGenre)]]

updateGenre(id, updatedGenre) ==
  LET index == findIndex(genres, id) IN
  IF index = 0 THEN [ret |-> 0, genres |-> genres]
  ELSE [ret |-> index,
        genres |-> [genres EXCEPT ![index] = Spread(genres[index], updatedGenre)]]

\* An update that leaves the copy with the book it had.
updateBookCopy_KeepsBookId(id, updatedBookCopy) ==
  LET index == findIndex(bookCopies, id) IN
  IF index = 0 THEN [ret |-> 0, bookCopies |-> bookCopies]
  ELSE [ret |-> index,
        bookCopies |-> [bookCopies EXCEPT ![index] =
                          [Spread(bookCopies[index], updatedBookCopy)
                             EXCEPT !.bookId = bookCopies[index].bookId]]]

\* An update that adds the row when no row has the id.
updateBookCopy_Upserts(id, updatedBookCopy) ==
  LET index == findIndex(bookCopies, id) IN
  IF index = 0
  THEN [ret |-> 0,
        bookCopies |-> Append(bookCopies, Spread([id |-> id], updatedBookCopy))]
  ELSE [ret |-> index,
        bookCopies |-> [bookCopies EXCEPT ![index] =
                          Spread(bookCopies[index], updatedBookCopy)]]

updateBookCopy(id, updatedBookCopy) ==
  LET index == findIndex(bookCopies, id) IN
  IF index = 0 THEN [ret |-> 0, bookCopies |-> bookCopies]
  ELSE [ret |-> index,
        bookCopies |-> [bookCopies EXCEPT ![index] =
                          Spread(bookCopies[index], updatedBookCopy)]]

\* A delete of the book alone.
deleteBook_KeepsCopies(id) ==
  LET index == findIndex(books, id) IN
  IF index = 0 THEN [ret |-> FALSE, books |-> books, bookCopies |-> bookCopies]
  ELSE [ret |-> TRUE, bookCopies |-> bookCopies, books |-> splice(books, index)]

\* deleteBook also drops every copy of the book, then the first row with the id.
deleteBook(id) ==
  LET index == findIndex(books, id) IN
  IF index = 0 THEN [ret |-> FALSE, books |-> books, bookCopies |-> bookCopies]
  ELSE [ret |-> TRUE,
        bookCopies |-> SelectSeq(bookCopies, LAMBDA copy : copy.bookId # id),
        books |-> splice(books, index)]

\* A delete by authors.splice(index), which drops the row and all after it.
deleteAuthor_SpliceToEnd(id) ==
  LET index == findIndex(authors, id) IN
  IF index = 0 THEN [ret |-> FALSE, authors |-> authors]
  ELSE [ret |-> TRUE, authors |-> SubSeq(authors, 1, index - 1)]

deleteAuthor(id) ==
  LET index == findIndex(authors, id) IN
  IF index = 0 THEN [ret |-> FALSE, authors |-> authors]
  ELSE [ret |-> TRUE, authors |-> splice(authors, index)]

deleteGenre(id) ==
  LET index == findIndex(genres, id) IN
  IF index = 0 THEN [ret |-> FALSE, genres |-> genres]
  ELSE [ret |-> TRUE, genres |-> splice(genres, index)]

deleteBookCopy(id) ==
  LET index == findIndex(bookCopies, id) IN
  IF index = 0 THEN [ret |-> FALSE, bookCopies |-> bookCopies]
  ELSE [ret |-> TRUE, bookCopies |-> splice(bookCopies, index)]

(***************************************************************************)
(* Requests and answers.                                                   *)
(***************************************************************************)
\* req.body with none of the properties the controllers read.
NoBody ==
  [firstName |-> Undefined, lastName |-> Undefined, birthDate |-> Undefined,
   deathDate |-> Undefined, name |-> Undefined, title |-> Undefined,
   authorIds |-> NoArray, genreIds |-> NoArray, isbn |-> Undefined,
   summary |-> Undefined, bookId |-> Undefined, imprint |-> Undefined,
   status |-> Undefined, dueBackDate |-> Undefined]

Request(name, id, body) == [name |-> name, id |-> id, body |-> body]

\* The server takes the next request, while the model follows it.
Receive(request) ==
  /\ requests < MaxRequests
  /\ requests' = requests + 1
  /\ op' = request

\* res.status(201).json(row), res.json(row): the row at index of the table.
Created(index) == [status |-> 201, message |-> "", index |-> index]

Ok(index) == [status |-> 200, message |-> "", index |-> index]

\* res.status(204).send()
NoContent == [status |-> 204, message |-> "", index |-> 0]

\* res.status(400).json({ error: 'Bad Request', message })
BadRequest(message) == [status |-> 400, message |-> message, index |-> 0]

\* res.status(404).json({ error: 'Not Found', message })
NotFound(message) == [status |-> 404, message |-> message, index |-> 0]

(***************************************************************************)
(* controllers/authorsControllers.ts                                       *)
(***************************************************************************)
createAuthor(body, newId) ==
  /\ Receive(Request("createAuthor", Undefined, body))
  /\ IF Falsy(body.firstName) \/ Falsy(body.birthDate)
     THEN /\ result' = BadRequest("firstName and birthDate are required")
          /\ UNCHANGED tables
     ELSE /\ authors' = addAuthor(Author(newId, body.firstName, body.lastName,
                                         body.birthDate, body.deathDate))
          /\ result' = Created(Len(authors) + 1)
          /\ UNCHANGED <<books, genres, bookCopies>>

updateAuthorById(id, body) ==
  /\ Receive(Request("updateAuthorById", id, body))
  /\ IF Falsy(body.firstName) \/ Falsy(body.birthDate)
     THEN /\ result' = BadRequest("firstName and birthDate are required")
          /\ UNCHANGED tables
     ELSE LET updatedAuthor ==
                updateAuthor(id, [firstName |-> body.firstName,
                                  lastName |-> body.lastName,
                                  birthDate |-> body.birthDate,
                                  deathDate |-> body.deathDate])
          IN /\ authors' = updatedAuthor.authors
             /\ result' = IF updatedAuthor.ret = 0
                          THEN NotFound("Author not found")
                          ELSE Ok(updatedAuthor.ret)
             /\ UNCHANGED <<books, genres, bookCopies>>

\* A delete that also drops the books of the author.
deleteAuthorById_Cascades(id) ==
  LET success == deleteAuthor(id) IN
  /\ Receive(Request("deleteAuthorById", id, NoBody))
  /\ authors' = success.authors
  /\ books' = IF success.ret
              THEN SelectSeq(books, LAMBDA book :
                     \A j \in 1..Len(book.authorIds.items) :
                       book.authorIds.items[j] # id)
              ELSE books
  /\ result' = IF success.ret THEN NoContent ELSE NotFound("Author not found")
  /\ UNCHANGED <<genres, bookCopies>>

deleteAuthorById(id) ==
  LET success == deleteAuthor(id) IN
  /\ Receive(Request("deleteAuthorById", id, NoBody))
  /\ authors' = success.authors
  /\ result' = IF success.ret THEN NoContent ELSE NotFound("Author not found")
  /\ UNCHANGED <<books, genres, bookCopies>>

(***************************************************************************)
(* controllers/genresControllers.ts                                        *)
(***************************************************************************)
createGenre(body, newId) ==
  /\ Receive(Request("createGenre", Undefined, body))
  /\ IF Falsy(body.name)
     THEN /\ result' = BadRequest("name is required")
          /\ UNCHANGED tables
     ELSE /\ genres' = addGenre(Genre(newId, body.name))
          /\ result' = Created(Len(genres) + 1)
          /\ UNCHANGED <<books, authors, bookCopies>>

\* An update that looks the genre up before it validates the payload.
updateGenreById_LooksUpFirst(id, body) ==
  /\ Receive(Request("updateGenreById", id, body))
  /\ IF findGenreById(id) = 0
     THEN /\ result' = NotFound("Genre not found")
          /\ UNCHANGED tables
     ELSE IF Falsy(body.name)
     THEN /\ result' = BadRequest("name is required")
          /\ UNCHANGED tables
     ELSE LET updatedGenre == updateGenre(id, [name |-> body.name])
          IN /\ genres' = updatedGenre.genres
             /\ result' = Ok(updatedGenre.ret)
             /\ UNCHANGED <<books, authors, bookCopies>>

updateGenreById(id, body) ==
  /\ Receive(Request("updateGenreById", id, body))
  /\ IF Falsy(body.name)
     THEN /\ result' = BadRequest("name is required")
          /\ UNCHANGED tables
     ELSE LET updatedGenre == updateGenre(id, [name |-> body.name])
          IN /\ genres' = updatedGenre.genres
             /\ result' = IF updatedGenre.ret = 0
                          THEN NotFound("Genre not found")
                          ELSE Ok(updatedGenre.ret)
             /\ UNCHANGED <<books, authors, bookCopies>>

\* A delete that refuses a genre some book refers to.
deleteGenreById_Blocks(id) ==
  LET referenced == \E i \in 1..Len(books) :
                      \E j \in 1..Len(books[i].genreIds.items) :
                        books[i].genreIds.items[j] = id
      success == IF referenced THEN [ret |-> FALSE, genres |-> genres]
                 ELSE deleteGenre(id)
  IN /\ Receive(Request("deleteGenreById", id, NoBody))
     /\ genres' = success.genres
     /\ result' = IF referenced THEN BadRequest("Genre is in use")
                  ELSE IF success.ret THEN NoContent
                  ELSE NotFound("Genre not found")
     /\ UNCHANGED <<books, authors, bookCopies>>

deleteGenreById(id) ==
  LET success == deleteGenre(id) IN
  /\ Receive(Request("deleteGenreById", id, NoBody))
  /\ genres' = success.genres
  /\ result' = IF success.ret THEN NoContent ELSE NotFound("Genre not found")
  /\ UNCHANGED <<books, authors, bookCopies>>

(***************************************************************************)
(* controllers/booksControllers.ts                                         *)
(***************************************************************************)
getBookById(id) ==
  LET book == findBookById(id) IN
  /\ Receive(Request("getBookById", id, NoBody))
  /\ result' = IF book = 0 THEN NotFound("Book not found") ELSE Ok(book)
  /\ UNCHANGED tables

\* The checks without the lookup of the genres.
createBookCheck_AuthorsOnly(body) ==
  IF \/ Falsy(body.title) \/ FalsyArr(body.authorIds) \/ FalsyArr(body.genreIds)
     \/ Falsy(body.isbn) \/ Falsy(body.summary)
  THEN "title, authorIds, genreIds, isbn, and summary are required"
  ELSE IF ~IsArray(body.authorIds) \/ Len(body.authorIds.items) = 0
  THEN "authorIds must be a non-empty array"
  ELSE IF ~IsArray(body.genreIds) \/ Len(body.genreIds.items) = 0
  THEN "genreIds must be a non-empty array"
  ELSE LET invalidAuthorIds ==
             SelectSeq(body.authorIds.items, LAMBDA id : findAuthorById(id) = 0)
       IN IF Len(invalidAuthorIds) > 0
          THEN "Invalid author IDs: " \o Join(invalidAuthorIds)
          ELSE ""

\* The checks with each list's lookups right after its shape check.
createBookCheck_ReferencesFirst(body) ==
  IF \/ Falsy(body.title) \/ FalsyArr(body.authorIds) \/ FalsyArr(body.genreIds)
     \/ Falsy(body.isbn) \/ Falsy(body.summary)
  THEN "title, authorIds, genreIds, isbn, and summary are required"
  ELSE IF ~IsArray(body.authorIds) \/ Len(body.authorIds.items) = 0
  THEN "authorIds must be a non-empty array"
  ELSE IF Len(SelectSeq(body.authorIds.items, LAMBDA id : findAuthorById(id) = 0)) > 0
  THEN "Invalid author IDs: "
         \o Join(SelectSeq(body.authorIds.items, LAMBDA id : findAuthorById(id) = 0))
  ELSE IF ~IsArray(body.genreIds) \/ Len(body.genreIds.items) = 0
  THEN "genreIds must be a non-empty array"
  ELSE IF Len(SelectSeq(body.genreIds.items, LAMBDA id : findGenreById(id) = 0)) > 0
  THEN "Invalid genre IDs: "
         \o Join(SelectSeq(body.genreIds.items, LAMBDA id : findGenreById(id) = 0))
  ELSE ""

\* The checks createBook makes before it writes: the message of the first
\* one that fails, "" when all pass.
createBookCheck(body) ==
  IF \/ Falsy(body.title) \/ FalsyArr(body.authorIds) \/ FalsyArr(body.genreIds)
     \/ Falsy(body.isbn) \/ Falsy(body.summary)
  THEN "title, authorIds, genreIds, isbn, and summary are required"
  ELSE IF ~IsArray(body.authorIds) \/ Len(body.authorIds.items) = 0
  THEN "authorIds must be a non-empty array"
  ELSE IF ~IsArray(body.genreIds) \/ Len(body.genreIds.items) = 0
  THEN "genreIds must be a non-empty array"
  ELSE LET invalidAuthorIds ==
             SelectSeq(body.authorIds.items, LAMBDA id : findAuthorById(id) = 0)
           invalidGenreIds ==
             SelectSeq(body.genreIds.items, LAMBDA id : findGenreById(id) = 0)
       IN IF Len(invalidAuthorIds) > 0
          THEN "Invalid author IDs: " \o Join(invalidAuthorIds)
          ELSE IF Len(invalidGenreIds) > 0
          THEN "Invalid genre IDs: " \o Join(invalidGenreIds)
          ELSE ""

createBook(body, newId) ==
  LET error == createBookCheck(body) IN
  /\ Receive(Request("createBook", Undefined, body))
  /\ IF error # ""
     THEN /\ result' = BadRequest(error)
          /\ UNCHANGED tables
     ELSE /\ books' = addBook(Book(newId, body.title, body.authorIds, body.genreIds,
                                   body.isbn, body.summary))
          /\ result' = Created(Len(books) + 1)
          /\ UNCHANGED <<authors, genres, bookCopies>>

\* The checks with a find in place of each filter: only the first id that
\* resolves to nothing is named.
updateBookByIdCheck_FirstInvalid(body) ==
  IF \/ Falsy(body.title) \/ FalsyArr(body.authorIds) \/ FalsyArr(body.genreIds)
     \/ Falsy(body.isbn) \/ Falsy(body.summary)
  THEN "title, authorIds, genreIds, isbn, and summary are required"
  ELSE IF ~IsArray(body.authorIds) \/ Len(body.authorIds.items) = 0
  THEN "authorIds must be a non-empty array"
  ELSE IF ~IsArray(body.genreIds) \/ Len(body.genreIds.items) = 0
  THEN "genreIds must be a non-empty array"
  ELSE LET invalidAuthorIds ==
             SelectSeq(body.authorIds.items, LAMBDA id : findAuthorById(id) = 0)
           invalidGenreIds ==
             SelectSeq(body.genreIds.items, LAMBDA id : findGenreById(id) = 0)
       IN IF Len(invalidAuthorIds) > 0
          THEN "Invalid author IDs: " \o invalidAuthorIds[1]
          ELSE IF Len(invalidGenreIds) > 0
          THEN "Invalid genre IDs: " \o invalidGenreIds[1]
          ELSE ""

\* updateBookById repeats createBook's checks, then looks the book up.
updateBookByIdCheck(body) ==
  IF \/ Falsy(body.title) \/ FalsyArr(body.authorIds) \/ FalsyArr(body.genreIds)
     \/ Falsy(body.isbn) \/ Falsy(body.summary)
  THEN "title, authorIds, genreIds, isbn, and summary are required"
  ELSE IF ~IsArray(body.authorIds) \/ Len(body.authorIds.items) = 0
  THEN "authorIds must be a non-empty array"
  ELSE IF ~IsArray(body.genreIds) \/ Len(body.genreIds.items) = 0
  THEN "genreIds must be a non-empty array"
  ELSE LET invalidAuthorIds ==
             SelectSeq(body.authorIds.items, LAMBDA id : findAuthorById(id) = 0)
           invalidGenreIds ==
             SelectSeq(body.genreIds.items, LAMBDA id : findGenreById(id) = 0)
       IN IF Len(invalidAuthorIds) > 0
          THEN "Invalid author IDs: " \o Join(invalidAuthorIds)
          ELSE IF Len(invalidGenreIds) > 0
          THEN "Invalid genre IDs: " \o Join(invalidGenreIds)
          ELSE ""

updateBookById(id, body) ==
  LET error == updateBookByIdCheck(body) IN
  /\ Receive(Request("updateBookById", id, body))
  /\ IF error # ""
     THEN /\ result' = BadRequest(error)
          /\ UNCHANGED tables
     ELSE LET updatedBook ==
                updateBook(id, [title |-> body.title, authorIds |-> body.authorIds,
                                genreIds |-> body.genreIds, isbn |-> body.isbn,
                                summary |-> body.summary])
          IN /\ books' = updatedBook.books
             /\ result' = IF updatedBook.ret = 0
                          THEN NotFound("Book not found")
                          ELSE Ok(updatedBook.ret)
             /\ UNCHANGED <<authors, genres, bookCopies>>

deleteBookById(id) ==
  LET success == deleteBook(id) IN
  /\ Receive(Request("deleteBookById", id, NoBody))
  /\ books' = success.books
  /\ bookCopies' = success.bookCopies
  /\ result' = IF success.ret THEN NoContent ELSE NotFound("Book not found")
  /\ UNCHANGED <<authors, genres>>

(***************************************************************************)
(* controllers/bookCopiesControllers.ts                                    *)
(***************************************************************************)
validStatuses == <<"available", "unavailable", "can be checkout", "checked out">>

\* getAllBookCopies: the copies table, filtered by the query's bookId and
\* status when the query carries them.
getAllBookCopies(queryBookId, queryStatus) ==
  LET byBook == IF Falsy(queryBookId) THEN bookCopies
                ELSE SelectSeq(bookCopies, LAMBDA copy : copy.bookId = queryBookId)
  IN IF Falsy(queryStatus) THEN byBook
     ELSE SelectSeq(byBook, LAMBDA copy : copy.status = queryStatus)

\* The checks without the one of the status.
createBookCopyCheck_AnyStatus(body) ==
  IF Falsy(body.bookId) \/ Falsy(body.imprint) \/ Falsy(body.status)
  THEN "bookId, imprint, and status are required"
  ELSE IF findBookById(body.bookId) = 0
  THEN "Invalid book ID"
  ELSE ""

\* The checks without the lookup of the book.
createBookCopyCheck_AnyBook(body) ==
  IF Falsy(body.bookId) \/ Falsy(body.imprint) \/ Falsy(body.status)
  THEN "bookId, imprint, and status are required"
  ELSE IF ~(\E i \in 1..Len(validStatuses) : validStatuses[i] = body.status)
  THEN "Invalid status. Must be one of: " \o Join(validStatuses)
  ELSE ""

createBookCopyCheck(body) ==
  IF Falsy(body.bookId) \/ Falsy(body.imprint) \/ Falsy(body.status)
  THEN "bookId, imprint, and status are required"
  ELSE IF findBookById(body.bookId) = 0
  THEN "Invalid book ID"
  ELSE IF ~(\E i \in 1..Len(validStatuses) : validStatuses[i] = body.status)
  THEN "Invalid status. Must be one of: " \o Join(validStatuses)
  ELSE ""

createBookCopy(body, newId) ==
  LET error == createBookCopyCheck(body) IN
  /\ Receive(Request("createBookCopy", Undefined, body))
  /\ IF error # ""
     THEN /\ result' = BadRequest(error)
          /\ UNCHANGED tables
     ELSE /\ bookCopies' = addBookCopy(BookCopy(newId, body.bookId, body.imprint,
                                                body.status, body.dueBackDate))
          /\ result' = Created(Len(bookCopies) + 1)
          /\ UNCHANGED <<books, authors, genres>>

\* The checks with the status looked at before the book.
updateBookCopyByIdCheck_StatusFirst(body) ==
  IF Falsy(body.bookId) \/ Falsy(body.imprint) \/ Falsy(body.status)
  THEN "bookId, imprint, and status are required"
  ELSE IF ~(\E i \in 1..Len(validStatuses) : validStatuses[i] = body.status)
  THEN "Invalid status. Must be one of: " \o Join(validStatuses)
  ELSE IF findBookById(body.bookId) = 0
  THEN "Invalid book ID"
  ELSE ""

updateBookCopyByIdCheck(body) ==
  IF Falsy(body.bookId) \/ Falsy(body.imprint) \/ Falsy(body.status)
  THEN "bookId, imprint, and status are required"
  ELSE IF findBookById(body.bookId) = 0
  THEN "Invalid book ID"
  ELSE IF ~(\E i \in 1..Len(validStatuses) : validStatuses[i] = body.status)
  THEN "Invalid status. Must be one of: " \o Join(validStatuses)
  ELSE ""

\* An update that writes the row and validates afterwards.
updateBookCopyById_WritesFirst(id, body) ==
  LET error == updateBookCopyByIdCheck(body)
      updatedBookCopy ==
        updateBookCopy(id, [bookId |-> body.bookId, imprint |-> body.imprint,
                            status |-> body.status,
                            dueBackDate |-> body.dueBackDate])
  IN /\ Receive(Request("updateBookCopyById", id, body))
     /\ bookCopies' = updatedBookCopy.bookCopies
     /\ result' = IF error # "" THEN BadRequest(error)
                  ELSE IF updatedBookCopy.ret = 0 THEN NotFound("Book copy not found")
                  ELSE Ok(updatedBookCopy.ret)
     /\ UNCHANGED <<books, authors, genres>>

updateBookCopyById(id, body) ==
  LET error == updateBookCopyByIdCheck(body) IN
  /\ Receive(Request("updateBookCopyById", id, body))
  /\ IF error # ""
     THEN /\ result' = BadRequest(error)
          /\ UNCHANGED tables
     ELSE LET updatedBookCopy ==
                updateBookCopy(id, [bookId |-> body.bookId, imprint |-> body.imprint,
                                    status |-> body.status,
                                    dueBackDate |-> body.dueBackDate])
          IN /\ bookCopies' = updatedBookCopy.bookCopies
             /\ result' = IF updatedBookCopy.ret = 0
                          THEN NotFound("Book copy not found")
                          ELSE Ok(updatedBookCopy.ret)
             /\ UNCHANGED <<books, authors, genres>>

deleteBookCopyById(id) ==
  LET success == deleteBookCopy(id) IN
  /\ Receive(Request("deleteBookCopyById", id, NoBody))
  /\ bookCopies' = success.bookCopies
  /\ result' = IF success.ret THEN NoContent ELSE NotFound("Book copy not found")
  /\ UNCHANGED <<books, authors, genres>>

(***************************************************************************)
(* The requests the model sends.                                           *)
(***************************************************************************)
\* req.params.id, and the ids a body refers to: the sample rows' ids and the
\* ids the generator hands out.
AuthorIds == {"auth1"} \cup generateId

GenreIds == {"gen1"} \cup generateId

BookIds == {"book1"} \cup generateId

BookCopyIds == {"copy1"} \cup generateId

AuthorBodies ==
  { [NoBody EXCEPT !.firstName = "Jane", !.birthDate = "1980-01-01"],
    [NoBody EXCEPT !.lastName = "Doe", !.birthDate = "1980-01-01"] }

GenreBodies == { [NoBody EXCEPT !.name = "Horror"], NoBody }

BookBody(title, authorIds, genreIds) ==
  [NoBody EXCEPT !.title = title, !.authorIds = authorIds, !.genreIds = genreIds,
                 !.isbn = "978-3-16-148410-0", !.summary = "An epic tale."]

BookBodies ==
  { BookBody("Dune", JsArray(<<"auth1">>), JsArray(<<"gen1">>)),
    BookBody("Emma", JsArray(<<"auth1">>), JsArray(<<"gen1">>)),
    BookBody("Dune", JsArray(<<"r1", "auth1">>), JsArray(<<"r1", "gen1">>)),
    BookBody("Dune", JsArray(<<"r1", "auth1">>), JsArray(<<>>)),
    BookBody("Dune", JsArray(<<>>), NotAnArray),
    BookBody("Dune", NotAnArray, JsArray(<<"gen1">>)),
    BookBody(Undefined, JsArray(<<"auth1">>), JsArray(<<"gen1">>)) }

BookCopyBody(bookId, imprint, status, dueBackDate) ==
  [NoBody EXCEPT !.bookId = bookId, !.imprint = imprint, !.status = status,
                 !.dueBackDate = dueBackDate]

BookCopyBodies ==
  { BookCopyBody("book1", "Reprint 2023", "checked out", "2024-01-15"),
    BookCopyBody("r1", "Reprint 2023", "available", Undefined),
    BookCopyBody("r1", "Reprint 2023", "lost", Undefined),
    BookCopyBody("r1", Undefined, "available", Undefined) }

(***************************************************************************)
(* The store as the module loads it (empty), or after index.ts has called  *)
(* initializeData(); then one request at a time, each run to completion.   *)
(***************************************************************************)
Init ==
  /\ \/ /\ books = <<>>
        /\ authors = <<>>
        /\ genres = <<>>
        /\ bookCopies = <<>>
     \/ /\ books = initializeData.books
        /\ authors = initializeData.authors
        /\ genres = initializeData.genres
        /\ bookCopies = initializeData.bookCopies
  /\ op = Request("listen", Undefined, NoBody)
  /\ result = [status |-> 0, message |-> "", index |-> 0]
  /\ requests = 0

\* One request, served by the controller its route names.
Next ==
  \/ \E body \in AuthorBodies, newId \in generateId : createAuthor(body, newId)
  \/ \E id \in AuthorIds, body \in AuthorBodies : updateAuthorById(id, body)
  \/ \E id \in AuthorIds : deleteAuthorById(id)
  \/ \E body \in GenreBodies, newId \in generateId : createGenre(body, newId)
  \/ \E id \in GenreIds, body \in GenreBodies : updateGenreById(id, body)
  \/ \E id \in GenreIds : deleteGenreById(id)
  \/ \E id \in BookIds : getBookById(id)
  \/ \E body \in BookBodies, newId \in generateId : createBook(body, newId)
  \/ \E id \in BookIds, body \in BookBodies : updateBookById(id, body)
  \/ \E id \in BookIds : deleteBookById(id)
  \/ \E body \in BookCopyBodies, newId \in generateId : createBookCopy(body, newId)
  \/ \E id \in BookCopyIds, body \in BookCopyBodies : updateBookCopyById(id, body)
  \/ \E id \in BookCopyIds : deleteBookCopyById(id)

Spec == Init /\ [][Next]_vars

(***************************************************************************)
(* storage.ts called directly.  The update functions take a Partial<Row>,  *)
(* whose properties are all optional, id among them; the controllers only  *)
(* ever pass the non-id fields.  Here the functions are also called with   *)
(* partials of the other shapes the type admits.                           *)
(***************************************************************************)
AuthorPartials ==
  { [lastName |-> "Doe"],
    [id |-> "r1"],
    [id |-> "auth1", firstName |-> "Jane"] }

GenrePartials ==
  { [name |-> "Horror"],
    [id |-> "r1"],
    [id |-> "gen1", name |-> "Horror"] }

BookPartials ==
  { [title |-> "Emma"],
    [id |-> "r1"],
    [id |-> "book1", summary |-> "An epic tale."] }

BookCopyPartials ==
  { [status |-> "checked out", dueBackDate |-> "2024-01-15"],
    [id |-> "r1"],
    [id |-> "copy1", imprint |-> "Reprint 2023"] }

\* What a storage function handed back: the row at index, or null (0).
Returned(index) == [status |-> 0, message |-> "", index |-> index]

callUpdateAuthor(id, updatedAuthor) ==
  LET updated == updateAuthor(id, updatedAuthor) IN
  /\ Receive(Request("updateAuthor", id, updatedAuthor))
  /\ authors' = updated.authors
  /\ result' = Returned(updated.ret)
  /\ UNCHANGED <<books, genres, bookCopies>>

callUpdateGenre(id, updatedGenre) ==
  LET updated == updateGenre(id, updatedGenre) IN
  /\ Receive(Request("updateGenre", id, updatedGenre))
  /\ genres' = updated.genres
  /\ result' = Returned(updated.ret)
  /\ UNCHANGED <<books, authors, bookCopies>>

callUpdateBook(id, updatedBook) ==
  LET updated == updateBook(id, updatedBook) IN
  /\ Receive(Request("updateBook", id, updatedBook))
  /\ books' = updated.books
  /\ result' = Returned(updated.ret)
  /\ UNCHANGED <<authors, genres, bookCopies>>

callUpdateBookCopy(id, updatedBookCopy) ==
  LET updated == updateBookCopy(id, updatedBookCopy) IN
  /\ Receive(Request("updateBookCopy", id, updatedBookCopy))
  /\ bookCopies' = updated.bookCopies
  /\ result' = Returned(updated.ret)
  /\ UNCHANGED <<books, authors, genres>>

\* An update function called by its controller or directly, on the sample rows
\* and the authors and genres created since.
NextStorage ==
  \/ \E body \in AuthorBodies, newId \in generateId : createAuthor(body, newId)
  \/ \E body \in GenreBodies, newId \in generateId : createGenre(body, newId)
  \/ \E id \in AuthorIds, body \in AuthorBodies : updateAuthorById(id, body)
  \/ \E id \in GenreIds, body \in GenreBodies : updateGenreById(id, body)
  \/ \E id \in BookIds, body \in BookBodies : updateBookById(id, body)
  \/ \E id \in BookCopyIds, body \in BookCopyBodies : updateBookCopyById(id, body)
  \/ \E id \in AuthorIds, partial \in AuthorPartials : callUpdateAuthor(id, partial)
  \/ \E id \in GenreIds, partial \in GenrePartials : callUpdateGenre(id, partial)
  \/ \E id \in BookIds, partial \in BookPartials : callUpdateBook(id, partial)
  \/ \E id \in BookCopyIds, partial \in BookCopyPartials :
       callUpdateBookCopy(id, partial)

SpecStorage == Init /\ [][NextStorage]_vars

(***************************************************************************)
(* deleteBook statement by statement.  Its body has no await and Node runs *)
(* a handler to its end before it takes the next request, so the server    *)
(* is busy from the statement that filters bookCopies to the one that      *)
(* splices books, and receives nothing in between.                         *)
(***************************************************************************)
\* deleteBook has filtered bookCopies and has yet to splice books.
Busy == op.name = "deleteBookById" /\ result.status = 0

\* A handler that gives way between its statements, as one with an await.
Idle_BetweenStatements == TRUE

\* The call stack is empty: the next request may be taken.
Idle == ~Busy

\* findIndex, the early return, and bookCopies = bookCopies.filter(...)
deleteBookCopies(id) ==
  LET success == deleteBook(id) IN
  /\ Receive(Request("deleteBookById", id, NoBody))
  /\ bookCopies' = success.bookCopies
  /\ result' = IF success.ret THEN Returned(findIndex(books, id))
               ELSE NotFound("Book not found")
  /\ UNCHANGED <<books, authors, genres>>

\* books.splice(index, 1), return true, and the controller's 204
deleteBookRow ==
  /\ Busy
  /\ books' = splice(books, result.index)
  /\ result' = NoContent
  /\ UNCHANGED <<authors, genres, bookCopies, op, requests>>

NextSteps ==
  \/ Idle /\ \E body \in AuthorBodies, newId \in generateId : createAuthor(body, newId)
  \/ Idle /\ \E id \in AuthorIds, body \in AuthorBodies : updateAuthorById(id, body)
  \/ Idle /\ \E id \in AuthorIds : deleteAuthorById(id)
  \/ Idle /\ \E body \in GenreBodies, newId \in generateId : createGenre(body, newId)
  \/ Idle /\ \E id \in GenreIds, body \in GenreBodies : updateGenreById(id, body)
  \/ Idle /\ \E id \in GenreIds : deleteGenreById(id)
  \/ Idle /\ \E id \in BookIds : getBookById(id)
  \/ Idle /\ \E body \in BookBodies, newId \in generateId : createBook(body, newId)
  \/ Idle /\ \E id \in BookIds, body \in BookBodies : updateBookById(id, body)
  \/ Idle /\ \E body \in BookCopyBodies, newId \in generateId :
               createBookCopy(body, newId)
  \/ Idle /\ \E id \in BookCopyIds, body \in BookCopyBodies :
               updateBookCopyById(id, body)
  \/ Idle /\ \E id \in BookCopyIds : deleteBookCopyById(id)
  \/ Idle /\ \E id \in BookIds : deleteBookCopies(id)
  \/ deleteBookRow

SpecSteps == Init /\ [][NextSteps]_vars

(***************************************************************************)
(* Vocabulary of the properties.                                           *)
(***************************************************************************)
Creates == {"createAuthor", "createGenre", "createBook", "createBookCopy"}

Updates == {"updateAuthorById", "updateGenreById", "updateBookById",
            "updateBookCopyById"}

Deletes == {"deleteAuthorById", "deleteGenreById", "deleteBookById",
            "deleteBookCopyById"}

\* The table a controller works on.
TableOf(name) ==
  IF name \in {"createAuthor", "updateAuthorById", "deleteAuthorById", "updateAuthor"}
  THEN authors
  ELSE IF name \in {"createGenre", "updateGenreById", "deleteGenreById", "updateGenre"}
  THEN genres
  ELSE IF name \in {"createBookCopy", "updateBookCopyById", "deleteBookCopyById",
                    "updateBookCopy"}
  THEN bookCopies
  ELSE books

\* The table of the last request, and the record its answer carries.
Table == TableOf(op.name)

HasId(table, id) == \E i \in 1..Len(table) : table[i].id = id

IdsOf(table) == [i \in 1..Len(table) |-> table[i].id]

Occurrences(table, row) == Cardinality({i \in 1..Len(table) : table[i] = row})

CopiesOf(bookId) == Cardinality({i \in 1..Len(bookCopies) : bookCopies[i].bookId = bookId})

\* What GET /book-copies?bookId=<id of the last request> lists.
CopiesListedForRequest == getAllBookCopies(op.id, Undefined)

\* Neither listing shows a copy of the book the last request names.
NoCopyListedForRequest ==
  /\ \A i \in 1..Len(CopiesListedForRequest) :
       CopiesListedForRequest[i].bookId # op.id
  /\ \A i \in 1..Len(getAllBookCopies(Undefined, Undefined)) :
       getAllBookCopies(Undefined, Undefined)[i].bookId # op.id

(***************************************************************************)
(* C1.  For every book b of the books table, deleteBookById(b.id) answers  *)
(* 204, removes b from the table and removes every copy whose bookId is    *)
(* b.id: right after it no listing of the copies (with the bookId filter   *)
(* or without) shows a copy of that book, and every copy of another book   *)
(* is still there.                                                         *)
(***************************************************************************)
C1_DeleteBookRemovesBookAndCopies ==
  [][(op'.name = "deleteBookById" /\ HasId(books, op'.id)) =>
       /\ result'.status = 204
       /\ \A i \in 1..Len(books) :
            books[i].id = op'.id =>
              Occurrences(books', books[i]) < Occurrences(books, books[i])
       /\ NoCopyListedForRequest'
       /\ bookCopies' = SelectSeq(bookCopies, LAMBDA copy : copy.bookId # op'.id)]_vars

(***************************************************************************)
(* C2.  No copy dangles: in every reachable state each copy's bookId is    *)
(* the id of a book of the books table.                                    *)
(***************************************************************************)
C2_NoDanglingCopy ==
  \A i \in 1..Len(bookCopies) : HasId(books, bookCopies[i].bookId)

\* A book with copies has been deleted while copies of another book stay.
C2_Witness ==
  /\ op.name = "deleteBookById"
  /\ result.status = 204
  /\ Len(bookCopies) > 0

(***************************************************************************)
(* C3.  createBookCopy with a bookId that is the id of no book answers 400 *)
(* ("Invalid book ID" when bookId, imprint and status are all present) and *)
(* leaves the copies table as it was.                                      *)
(***************************************************************************)
C3_CopyOfUnknownBookRejected ==
  [][(op'.name = "createBookCopy" /\ ~HasId(books, op'.body.bookId)) =>
       /\ result'.status = 400
       /\ bookCopies' = bookCopies
       /\ (~Falsy(op'.body.bookId) /\ ~Falsy(op'.body.imprint)
             /\ ~Falsy(op'.body.status)) => result'.message = "Invalid book ID"]_vars

\* A complete copy body naming an unknown book has been turned down while
\* the store holds books and copies.
C3_Witness ==
  /\ op.name = "createBookCopy"
  /\ result.message = "Invalid book ID"
  /\ ~HasId(books, op.body.bookId)
  /\ Len(books) > 0
  /\ Len(bookCopies) > 0

(***************************************************************************)
(* C4.  As stated: an update-by-id whose id matches no row of its table    *)
(* answers 404 whatever the payload, and changes no table.                 *)
(***************************************************************************)
C4_UpdateOfUnknownIdIsNotFound ==
  [][(op'.name \in Updates /\ ~HasId(TableOf(op'.name), op'.id)) =>
       /\ result'.status = 404
       /\ tables' = tables]_vars

\* The payload passes every check its update controller makes.
PassesValidation(name, body) ==
  IF name = "updateAuthorById" THEN ~Falsy(body.firstName) /\ ~Falsy(body.birthDate)
  ELSE IF name = "updateGenreById" THEN ~Falsy(body.name)
  ELSE IF name = "updateBookById" THEN updateBookByIdCheck(body) = ""
  ELSE updateBookCopyByIdCheck(body) = ""

(***************************************************************************)
(* C4, amended.  An update-by-id whose id matches no row of its table      *)
(* changes no table; it answers 404 when the payload passes the            *)
(* controller's validation and 400 when it does not.                       *)
(***************************************************************************)
C4_UpdateOfUnknownIdChangesNothing ==
  [][(op'.name \in Updates /\ ~HasId(TableOf(op'.name), op'.id)) =>
       /\ tables' = tables
       /\ result'.status = IF PassesValidation(op'.name, op'.body) THEN 404 ELSE 400]_vars

\* A valid payload has been sent to an id that a non-empty table lacks.
C4_Witness ==
  /\ op.name \in Updates
  /\ ~HasId(Table, op.id)
  /\ Len(Table) > 0
  /\ result.status = 404

(***************************************************************************)
(* C5.  For every id of a table, delete(id) answers 204, and the same      *)
(* delete sent again right after it answers 404.                           *)
(***************************************************************************)
C5_SecondDeleteIsNotFound ==
  [][/\ (op'.name \in Deletes /\ HasId(TableOf(op'.name), op'.id)) =>
          result'.status = 204
     /\ (op.name \in Deletes /\ result.status = 204
           /\ op'.name = op.name /\ op'.id = op.id) => result'.status = 404]_vars

(***************************************************************************)
(* C6.  A delete that answers 204 shrinks its table by exactly one row,    *)
(* and a book's delete also shrinks the copies table by the number of      *)
(* copies whose bookId was the deleted id; a delete that answers 404       *)
(* changes no table's size.                                                *)
(***************************************************************************)
C6_DeleteShrinksByOne ==
  [][op'.name \in Deletes =>
       IF result'.status = 204
       THEN /\ op'.name = "deleteAuthorById" => Len(authors') = Len(authors) - 1
            /\ op'.name = "deleteGenreById" => Len(genres') = Len(genres) - 1
            /\ op'.name = "deleteBookCopyById" =>
                 Len(bookCopies') = Len(bookCopies) - 1
            /\ op'.name = "deleteBookById" =>
                 /\ Len(books') = Len(books) - 1
                 /\ Len(bookCopies') = Len(bookCopies) - CopiesOf(op'.id)
       ELSE /\ result'.status = 404
            /\ Len(authors') = Len(authors)
            /\ Len(genres') = Len(genres)
            /\ Len(books') = Len(books)
            /\ Len(bookCopies') = Len(bookCopies)]_vars

\* The sample book has been deleted first thing, and its copy with it.
C6_Witness ==
  /\ requests = 1
  /\ op.name = "deleteBookById"
  /\ op.id = "book1"
  /\ result.status = 204
  /\ books = <<>>
  /\ bookCopies = <<>>

(***************************************************************************)
(* C7.  createBook with a payload that passes validation, followed at once *)
(* by getBookById with the id createBook returned, answers 200 with a      *)
(* record whose title, authorIds, genreIds, isbn and summary are the       *)
(* payload's and whose id is the generated id, which is not empty.         *)
(***************************************************************************)
C7_CreateThenGetReturnsPayload ==
  [][(/\ op.name = "createBook"
      /\ result.status = 201
      /\ op'.name = "getBookById"
      /\ op'.id = books[result.index].id) =>
       /\ result'.status = 200
       /\ books'[result'.index].title = op.body.title
       /\ books'[result'.index].authorIds = op.body.authorIds
       /\ books'[result'.index].genreIds = op.body.genreIds
       /\ books'[result'.index].isbn = op.body.isbn
       /\ books'[result'.index].summary = op.body.summary
       /\ books'[result'.index].id = op'.id
       /\ op'.id # ""]_vars

(***************************************************************************)
(* C8.  In every reachable state no two rows of a table share an id.       *)
(***************************************************************************)
UniqueIds(table) ==
  \A i, j \in 1..Len(table) : table[i].id = table[j].id => i = j

C8_IdsUniquePerKind ==
  /\ UniqueIds(authors)
  /\ UniqueIds(genres)
  /\ UniqueIds(books)
  /\ UniqueIds(bookCopies)

(***************************************************************************)
(* C9.  As stated: whatever partial an update function is called with,     *)
(* the row at the matched position keeps its id, so that only a create or  *)
(* a delete changes the ids a table holds.                                 *)
(***************************************************************************)
StorageUpdates == {"updateAuthor", "updateGenre", "updateBook", "updateBookCopy"}

IdsKept ==
  /\ IdsOf(authors') = IdsOf(authors)
  /\ IdsOf(genres') = IdsOf(genres)
  /\ IdsOf(books') = IdsOf(books)
  /\ IdsOf(bookCopies') = IdsOf(bookCopies)

CarriesId(request) == request.name \in StorageUpdates /\ "id" \in DOMAIN request.body

FieldsOf(name) ==
  IF name = "updateAuthorById" THEN {"firstName", "lastName", "birthDate", "deathDate"}
  ELSE IF name = "updateGenreById" THEN {"name"}
  ELSE IF name = "updateBookById"
  THEN {"title", "authorIds", "genreIds", "isbn", "summary"}
  ELSE {"bookId", "imprint", "status", "dueBackDate"}

Omits(body, f) ==
  IF f \in {"authorIds", "genreIds"} THEN body[f] = NoArray ELSE body[f] = Undefined

\* The row the answer to the last request carries.
Answered == Table[result.index]

C10_UpdateKeepsOmittedFields ==
  [][(op'.name \in Updates /\ result'.status = 200) =>
       \A f \in FieldsOf(op'.name) :
         Answered'[f] = IF Omits(op'.body, f)
                        THEN TableOf(op'.name)[result'.index][f]
                        ELSE op'.body[f]]_vars

(***************************************************************************)
(* C10, amended.  An update-by-id that answers 200 replaces every field    *)
(* but the id of the first row with that id by the payload's value, which  *)
(* is undefined for a field the payload omits; the id and every other row  *)
(* stay as they were, and the answer carries the resulting row.            *)
(***************************************************************************)
C10_UpdateReplacesEveryField ==
  [][(op'.name \in Updates /\ result'.status = 200) =>
       /\ result'.index = findIndex(TableOf(op'.name), op'.id)
       /\ \A f \in FieldsOf(op'.name) : Answered'[f] = op'.body[f]
       /\ Answered'.id = op'.id
       /\ Len(Table') = Len(TableOf(op'.name))
       /\ \A i \in 1..Len(Table') :
            i # result'.index => Table'[i] = TableOf(op'.name)[i]]_vars

\* The sample author, updated with a payload without lastName and deathDate,
\* has lost both.
C10_Witness ==
  /\ requests = 1
  /\ op.name = "updateAuthorById"
  /\ op.id = "auth1"
  /\ result.status = 200
  /\ Omits(op.body, "lastName")
  /\ Answered.lastName = Undefined
  /\ Answered.deathDate = Undefined

(***************************************************************************)
(* C11.  createBook and updateBookById answer with the error of the first  *)
(* check that fails, in the order: the five fields are there, authorIds    *)
(* is a non-empty array, genreIds is a non-empty array, every author id    *)
(* is an author's, every genre id is a genre's.  A payload with an unknown *)
(* author id and an empty genreIds array is answered "genreIds must be a   *)
(* non-empty array".                                                       *)
(***************************************************************************)
BookWrites == {"createBook", "updateBookById"}

\* The lists of ids an error message may name.
IdLists == UNION {[1..n -> AuthorIds \cup GenreIds] : n \in 1..2}

InvalidAuthorsMessage(message) ==
  \E ids \in IdLists : message = "Invalid author IDs: " \o Join(ids)

InvalidGenresMessage(message) ==
  \E ids \in IdLists : message = "Invalid genre IDs: " \o Join(ids)

FieldMissing(body) ==
  \/ body.title \in {Undefined, ""}
  \/ body.authorIds = NoArray
  \/ body.genreIds = NoArray
  \/ body.isbn \in {Undefined, ""}
  \/ body.summary \in {Undefined, ""}

NonEmptyArray(v) == v.type = "array" /\ v.items # <<>>

UnknownAuthorIn(body) ==
  \E i \in 1..Len(body.authorIds.items) : ~HasId(authors, body.authorIds.items[i])

UnknownGenreIn(body) ==
  \E i \in 1..Len(body.genreIds.items) : ~HasId(genres, body.genreIds.items[i])

C11_BookChecksInOrder ==
  [][op'.name \in BookWrites =>
       IF FieldMissing(op'.body)
       THEN /\ result'.status = 400
            /\ result'.message =
                 "title, authorIds, genreIds, isbn, and summary are required"
       ELSE IF ~NonEmptyArray(op'.body.authorIds)
       THEN /\ result'.status = 400
            /\ result'.message = "authorIds must be a non-empty array"
       ELSE IF ~NonEmptyArray(op'.body.genreIds)
       THEN /\ result'.status = 400
            /\ result'.message = "genreIds must be a non-empty array"
       ELSE IF UnknownAuthorIn(op'.body)
       THEN /\ result'.status = 400
            /\ InvalidAuthorsMessage(result'.message)
       ELSE IF UnknownGenreIn(op'.body)
       THEN /\ result'.status = 400
            /\ InvalidGenresMessage(result'.message)
       ELSE result'.status # 400]_vars

\* A payload with an unknown author id and an empty genreIds array has been
\* answered with the genreIds error.
C11_Witness ==
  /\ op.name \in BookWrites
  /\ Len(authors) > 0
  /\ UnknownAuthorIn(op.body)
  /\ op.body.genreIds = JsArray(<<>>)
  /\ result.status = 400
  /\ result.message = "genreIds must be a non-empty array"

(***************************************************************************)
(* C12.  When createBook or updateBookById fails the check of the author   *)
(* ids (or, with every author id valid, of the genre ids), the message     *)
(* names exactly the ids of the payload's list that are no author's (no    *)
(* genre's): all of them, in the payload's order, and none that resolves.  *)
(***************************************************************************)
Unresolved(table, ids) == SelectSeq(ids, LAMBDA id : ~HasId(table, id))

ReachesLookups(body) ==
  /\ ~FieldMissing(body)
  /\ NonEmptyArray(body.authorIds)
  /\ NonEmptyArray(body.genreIds)

C12_ErrorListsUnresolvedIds ==
  [][(op'.name \in BookWrites /\ ReachesLookups(op'.body)) =>
       IF UnknownAuthorIn(op'.body)
       THEN result'.message =
              "Invalid author IDs: "
                \o Join(Unresolved(authors, op'.body.authorIds.items))
       ELSE UnknownGenreIn(op'.body) =>
              result'.message =
                "Invalid genre IDs: "
                  \o Join(Unresolved(genres, op'.body.genreIds.items))]_vars

\* Of two author ids the payload had, the message names the one that is no
\* author's and not the one that is; or it names both, in the payload's order.
C12_Witness ==
  /\ op.name \in BookWrites
  /\ op.body.authorIds = JsArray(<<"r1", "auth1">>)
  /\ \/ HasId(authors, "auth1") /\ result.message = "Invalid author IDs: r1"
     \/ Len(authors) > 0 /\ result.message = "Invalid author IDs: r1, auth1"

(***************************************************************************)
(* C13.  createBookCopy and updateBookCopyById answer with the error of    *)
(* the first check that fails, in the order: bookId, imprint and status    *)
(* are there, bookId is a book's id, status is one of available,           *)
(* unavailable, can be checkout, checked out.  A payload with an unknown   *)
(* bookId and an invalid status is answered "Invalid book ID".             *)
(***************************************************************************)
BookCopyWrites == {"createBookCopy", "updateBookCopyById"}

Statuses == {"available", "unavailable", "can be checkout", "checked out"}

C13_CopyChecksInOrder ==
  [][op'.name \in BookCopyWrites =>
       IF \/ op'.body.bookId \in {Undefined, ""}
          \/ op'.body.imprint \in {Undefined, ""}
          \/ op'.body.status \in {Undefined, ""}
       THEN /\ result'.status = 400
            /\ result'.message = "bookId, imprint, and status are required"
       ELSE IF ~HasId(books, op'.body.bookId)
       THEN /\ result'.status = 400
            /\ result'.message = "Invalid book ID"
       ELSE IF op'.body.status \notin Statuses
       THEN /\ result'.status = 400
            /\ result'.message =
                 "Invalid status. Must be one of: "
                   \o "available, unavailable, can be checkout, checked out"
       ELSE result'.status # 400]_vars

\* A payload with an unknown bookId and an invalid status has been answered
\* with the error of the book.
C13_Witness ==
  /\ op.name \in BookCopyWrites
  /\ Len(books) > 0
  /\ ~HasId(books, op.body.bookId)
  /\ op.body.status = "lost"
  /\ result.status = 400
  /\ result.message = "Invalid book ID"

(***************************************************************************)
(* C14.  deleteAuthorById and deleteGenreById of an id their table has     *)
(* answer 204 whether or not a book refers to the id, and leave books and  *)
(* bookCopies as they were; so a state is reached in which a stored book   *)
(* names an author or a genre that no longer exists.                       *)
(***************************************************************************)
C14_AuthorGenreDeleteNoCascade ==
  [][(op'.name \in {"deleteAuthorById", "deleteGenreById"}
        /\ HasId(TableOf(op'.name), op'.id)) =>
       /\ result'.status = 204
       /\ Len(Table') = Len(TableOf(op'.name)) - 1
       /\ books' = books
       /\ bookCopies' = bookCopies]_vars

\* One of the book's lists of ids holds id.
RefersTo(book, field, id) ==
  \E j \in 1..Len(book[field].items) : book[field].items[j] = id

\* The delete has succeeded and left a book that names the deleted row.
C14_Witness ==
  /\ result.status = 204
  /\ \/ /\ op.name = "deleteAuthorById"
        /\ ~HasId(authors, op.id)
        /\ \E i \in 1..Len(books) : RefersTo(books[i], "authorIds", op.id)
     \/ /\ op.name = "deleteGenreById"
        /\ ~HasId(genres, op.id)
        /\ \E i \in 1..Len(books) : RefersTo(books[i], "genreIds", op.id)

(***************************************************************************)
(* C15.  A request to the controllers of one kind leaves the tables of the *)
(* three other kinds as they were, but for deleteBookById, which on        *)
(* success drops rows of bookCopies: the copies' controllers never change  *)
(* books, and createBook and updateBookById never change authors, genres   *)
(* or bookCopies.                                                          *)
(***************************************************************************)
AuthorRequests == {"createAuthor", "updateAuthorById", "deleteAuthorById"}

GenreRequests == {"createGenre", "updateGenreById", "deleteGenreById"}

BookRequests == {"getBookById", "createBook", "updateBookById", "deleteBookById"}

BookCopyRequests == {"createBookCopy", "updateBookCopyById", "deleteBookCopyById"}

C15_OtherKindsUnchanged ==
  [][/\ op'.name \in AuthorRequests =>
          <<genres, books, bookCopies>>' = <<genres, books, bookCopies>>
     /\ op'.name \in GenreRequests =>
          <<authors, books, bookCopies>>' = <<authors, books, bookCopies>>
     /\ op'.name \in BookCopyRequests =>
          <<authors, genres, books>>' = <<authors, genres, books>>
     /\ op'.name \in BookRequests =>
          /\ <<authors, genres>>' = <<authors, genres>>
          /\ bookCopies' # bookCopies =>
               /\ op'.name = "deleteBookById"
               /\ result'.status = 204
               /\ bookCopies' =
                    SelectSeq(bookCopies, LAMBDA copy : copy.bookId # op'.id)]_vars

\* A copy has been rewritten while every other table had rows.
C15_Witness ==
  /\ op.name = "updateBookCopyById"
  /\ result.status = 200
  /\ Len(books) > 0
  /\ Len(authors) > 0
  /\ Len(genres) > 0
  /\ bookCopies[result.index].status = "checked out"

(***************************************************************************)
(* C16.  When createBook or updateBookById is accepted, right after the    *)
(* write every id of the stored book's authorIds is the id of a row of     *)
(* authors and every id of its genreIds is the id of a row of genres.      *)
(***************************************************************************)
ReferencesResolve(book) ==
  /\ \A j \in 1..Len(book.authorIds.items) : HasId(authors, book.authorIds.items[j])
  /\ \A j \in 1..Len(book.genreIds.items) : HasId(genres, book.genreIds.items[j])

C16_AcceptedBookReferencesResolve ==
  [][(op'.name \in BookWrites /\ result'.status \in {200, 201}) =>
       /\ Answered'.authorIds = op'.body.authorIds
       /\ Answered'.genreIds = op'.body.genreIds
       /\ ReferencesResolve(Answered)']_vars

\* A book of two authors and two genres, one of each created since the
\* start, has been written.
C16_Witness ==
  /\ op.name \in BookWrites
  /\ result.status \in {200, 201}
  /\ Answered.authorIds = JsArray(<<"r1", "auth1">>)
  /\ Answered.genreIds = JsArray(<<"r1", "gen1">>)

(***************************************************************************)
(* C17.  The cascade of deleteBook is indivisible: once deleteBook has     *)
(* dropped the book's copies, the next thing to happen is that it drops    *)
(* the book and the request is answered 204; no request is received, and   *)
(* so none reads or writes the tables, while the copies are gone and the   *)
(* book is still there.                                                    *)
(***************************************************************************)
C17_CascadeIndivisible ==
  [][/\ Busy =>
          /\ op' = op
          /\ requests' = requests
          /\ result' = NoContent
          /\ books' = splice(books, findIndex(books, op.id))
          /\ <<authors, genres, bookCopies>>' = <<authors, genres, bookCopies>>
     /\ requests' # requests => ~Busy]_vars

\* The sample book's copy is gone and the sample book is still there.
C17_Witness ==
  /\ Busy
  /\ requests = 1
  /\ op.id = "book1"
  /\ HasId(books, "book1")
  /\ bookCopies = <<>>

(***************************************************************************)
(* C18.  In every reachable state the status of every stored copy is one   *)
(* of available, unavailable, can be checkout, checked out; and a copy's   *)
(* status changes only by an updateBookCopyById that supplies it: any      *)
(* other request leaves each copy it keeps as it was, and an accepted      *)
(* update gives the copy the payload's status and leaves the other copies. *)
(***************************************************************************)
StatusesValid == \A i \in 1..Len(bookCopies) : bookCopies[i].status \in Statuses

\* Every row of after is a row of before.
RowsKept(before, after) ==
  \A i \in 1..Len(after) : \E j \in 1..Len(before) : after[i] = before[j]

StatusChangesOnlyByUpdate ==
  IF op'.name = "updateBookCopyById" /\ result'.status = 200
  THEN /\ Answered'.status = op'.body.status
       /\ Len(bookCopies') = Len(bookCopies)
       /\ \A i \in 1..Len(bookCopies) :
            i # result'.index => bookCopies'[i] = bookCopies[i]
  ELSE IF op'.name = "createBookCopy" /\ result'.status = 201
  THEN /\ SubSeq(bookCopies', 1, Len(bookCopies)) = bookCopies
       /\ Len(bookCopies') = Len(bookCopies) + 1
       /\ Answered'.status = op'.body.status
  ELSE RowsKept(bookCopies, bookCopies')

C18_CopyStatusesValid == []StatusesValid /\ [][StatusChangesOnlyByUpdate]_vars

\* A second copy has been created, with a status of the four.
C18_Witness ==
  /\ op.name = "createBookCopy"
  /\ result.status = 201
  /\ Len(bookCopies) >= 2
  /\ Answered.status = op.body.status
  /\ \E i \in 1..Len(bookCopies) : bookCopies[i].status # Answered.status

(***************************************************************************)
(* C19.  Validation comes before any write: a create or an update, of any  *)
(* kind, that is answered 400 leaves the four tables as they were, also    *)
(* when it is an update of a book or a copy that exists.                   *)
(***************************************************************************)
C19_RejectedWriteChangesNothing ==
  [][(op'.name \in (Creates \cup Updates) /\ result'.status = 400) =>
       tables' = tables]_vars

\* An update of a book or of a copy that exists has been answered 400.
C19_Witness ==
  /\ op.name \in {"updateBookById", "updateBookCopyById"}
  /\ HasId(Table, op.id)
  /\ result.status = 400

(***************************************************************************)
(* C20.  Every update-by-id validates the payload before it looks the id   *)
(* up: a payload that fails validation is answered 400 whether or not a    *)
(* row has the id, and 404 is answered only to a payload that passes every *)
(* check (and to an id no row has).                                        *)
(***************************************************************************)
Present(v) == v \notin {Undefined, ""}

PayloadValid(name, body) ==
  IF name = "updateAuthorById" THEN Present(body.firstName) /\ Present(body.birthDate)
  ELSE IF name = "updateGenreById" THEN Present(body.name)
  ELSE IF name = "updateBookById"
  THEN /\ ReachesLookups(body)
       /\ ~UnknownAuthorIn(body)
       /\ ~UnknownGenreIn(body)
  ELSE /\ Present(body.bookId) /\ Present(body.imprint) /\ Present(body.status)
       /\ HasId(books, body.bookId)
       /\ body.status \in Statuses

C20_ValidationBeforeLookup ==
  [][op'.name \in Updates =>
       /\ ~PayloadValid(op'.name, op'.body) => result'.status = 400
       /\ result'.status = 404 =>
            /\ PayloadValid(op'.name, op'.body)
            /\ ~HasId(TableOf(op'.name), op'.id)
       /\ result'.status \in {200, 400, 404}]_vars

\* An author or a genre that exists has been sent a payload that fails
\* validation, and the answer is 400.
C20_Witness ==
  /\ op.name \in {"updateAuthorById", "updateGenreById"}
  /\ HasId(Table, op.id)
  /\ ~PayloadValid(op.name, op.body)
  /\ result.status = 400

(***************************************************************************)
(* C21.  The cascade follows the bookId a copy has now: a deleteBookById   *)
(* that answers 204 drops every copy whose bookId is the deleted id and    *)
(* keeps every other copy; so when a copy has just been updated to refer   *)
(* to a book B, deleting another book A, the one it was created under      *)
(* included, keeps the copy, and deleting B drops it.                      *)
(***************************************************************************)
C21_CascadeFollowsCurrentBookId ==
  [][(op'.name = "deleteBookById" /\ result'.status = 204) =>
       /\ \A i \in 1..Len(bookCopies) :
            IF bookCopies[i].bookId = op'.id
            THEN Occurrences(bookCopies', bookCopies[i]) = 0
            ELSE Occurrences(bookCopies', bookCopies[i])
                   = Occurrences(bookCopies, bookCopies[i])
       /\ (op.name = "updateBookCopyById" /\ result.status = 200) =>
            /\ Answered.bookId = op.body.bookId
            /\ IF op'.id = op.body.bookId
               THEN Occurrences(bookCopies', Answered) = 0
               ELSE Occurrences(bookCopies', Answered) >= 1]_vars

\* The sample copy, created under the sample book and since updated to refer
\* to another book, is still there after the sample book's delete.
C21_Witness ==
  /\ op.name = "deleteBookById"
  /\ op.id = "book1"
  /\ result.status = 204
  /\ ~HasId(books, "book1")
  /\ \E i \in 1..Len(bookCopies) :
       /\ bookCopies[i].id = "copy1"
       /\ bookCopies[i].bookId = "r1"
       /\ HasId(books, "r1")
====
